---- MODULE Spec2Model ----
(***************************************************************************)
(* Iron & Copper core mechanics (ironcopper/core.py, core/attributes.py):  *)
(* the D20 and D6 rollers, the skill check, the extended skill check and   *)
(* the Attribute wrappers, over Python's module-level random generator.    *)
(***************************************************************************)
EXTENDS Integers, Sequences, FiniteSets, TLC

VARIABLES
    pc,                      \* where the caller is: "idle", "loop", "done"
    last,                    \* the call in progress or just returned
    frame,                   \* the locals of a running extendedCheck
    attr,                    \* the Attribute object the caller holds
    verboseRolls,            \* core.verboseRolls
    verboseAttributeChecks,  \* attributes.verboseAttributeChecks
    runs,                    \* two sessions, each with its own generator and flags
    phase,                   \* "warmup" before the sessions reseed, "replay" after
    ncalls,                  \* calls both sessions have made since the reseed
    diverged                 \* the generators differed when the sessions reseeded

vars == <<pc, last, frame, attr, verboseRolls, verboseAttributeChecks,
          runs, phase, ncalls, diverged>>

mainVars == <<pc, last, frame, attr, verboseRolls, verboseAttributeChecks>>
seedVars == <<runs, phase, ncalls, diverged>>

(***************************************************************************)
(* Bounds of the model.                                                    *)
(***************************************************************************)
MaxAdv == 1          \* adv ranges over -MaxAdv..MaxAdv
MaxCount == 2        \* d6 count ranges over -MaxNeg..MaxCount
MaxNeg == 1          \* how far below zero counts, thresholds and budgets go
MaxThreshold == 7    \* extended thresholds range over -MaxNeg..MaxThreshold
MaxRolls == 3        \* roll budgets range over -MaxNeg..MaxRolls, and None
MaxWarmup == 2       \* draws a session makes before it reseeds
MaxCalls == 2        \* calls replayed after a reseed
MaxSeed == 1         \* seeds range over 0..MaxSeed

(***************************************************************************)
(* Program constants.                                                      *)
(***************************************************************************)
D20Sides == 20
D6Sides == 6
ModifierBase == 10
ExampleThreshold == 30
ExampleMaxRolls == 2

\* class Outcome(Enum): the members are their integer values
CriticalFail == -2
Fail == -1
NearFail == 0
Success == 1
CriticalSuccess == 2
Outcome == {CriticalFail, Fail, NearFail, Success, CriticalSuccess}

\* Python's None, as an integer no argument of the model takes
None == -999

\* what a call raised: no path of the modelled functions has a raise statement
NoError == "none"

\* Python truthiness of an Optional[int]: None and 0 are false
Truthy(x) == x # None /\ x # 0

abs(x) == IF x < 0 THEN 0 - x ELSE x

\* range(n): empty when n <= 0
range(n) == 1..n

RECURSIVE sum(_)
sum(rolls) == IF rolls = <<>> THEN 0 ELSE Head(rolls) + sum(Tail(rolls))

\* max(rolls): the first largest item of a non-empty list
RECURSIVE max(_)
max(rolls) ==
    IF Len(rolls) = 1 THEN Head(rolls)
    ELSE LET m == max(Tail(rolls)) IN IF m > Head(rolls) THEN m ELSE Head(rolls)

RECURSIVE min(_)
min(rolls) ==
    IF Len(rolls) = 1 THEN Head(rolls)
    ELSE LET m == min(Tail(rolls)) IN IF m < Head(rolls) THEN m ELSE Head(rolls)

(***************************************************************************)
(* The rollers and checks as functions of the values the random source     *)
(* hands out (tape, in the order drawn) and of the trace flag.  Each       *)
(* returns its value, the draws it consumed and the lines it printed.      *)
(***************************************************************************)
d20label(adv) ==
    IF adv > 0 THEN "D20+" ELSE IF adv < 0 THEN "D20-" ELSE "D20"

\* d20 with the sign test the wrong way round: the lowest die under advantage
d20SignFlipped(adv, tape, verbose) ==
    LET rolls == [i \in range(abs(adv) + 1) |-> tape[i]]
        result == IF adv < 0 THEN max(rolls) ELSE min(rolls)
    IN [result |-> result, rolls |-> rolls, printed |-> <<>>]

d20(adv, tape, verbose) ==
    LET rolls == [i \in range(abs(adv) + 1) |-> tape[i]]
        result == IF adv > 0 THEN max(rolls) ELSE min(rolls)
        printed == IF verbose
                   THEN IF adv # 0 THEN << <<d20label(adv), rolls, result>> >>
                                   ELSE << <<d20label(adv), result>> >>
                   ELSE <<>>
    IN [result |-> result, rolls |-> rolls, printed |-> printed]

d6label(count, critical) ==
    IF critical THEN <<count, "D6", "+">> ELSE <<count, "D6">>

\* d6 with a critical bonus of one die's worth, whatever the count
d6FlatBonus(count, critical, tape, verbose) ==
    LET rolls == [i \in range(count) |-> tape[i]]
        result == IF critical THEN sum(rolls) + D6Sides ELSE sum(rolls)
    IN [result |-> result, rolls |-> rolls, printed |-> <<>>]

\* d6 with the critical bonus taken from the magnitude of count
d6AbsBonus(count, critical, tape, verbose) ==
    LET rolls == [i \in range(count) |-> tape[i]]
        result == IF critical THEN sum(rolls) + abs(count) * D6Sides ELSE sum(rolls)
    IN [result |-> result, rolls |-> rolls, printed |-> <<>>]

d6(count, critical, tape, verbose) ==
    LET rolls == [i \in range(count) |-> tape[i]]
        plain == sum(rolls)
        result == IF critical THEN plain + count * D6Sides ELSE plain
        printed == IF verbose
                   THEN IF count > 1 THEN << <<d6label(count, critical), rolls, result>> >>
                                     ELSE << <<d6label(count, critical), result>> >>
                   ELSE <<>>
    IN [result |-> result, rolls |-> rolls, printed |-> printed]

\* check with the threshold compared before the natural 1 and 20 are looked at
checkThresholdFirst(threshold, adv, tape, verbose) ==
    LET r == d20(adv, tape, verbose)
        roll == r.result
        outcome == IF roll < threshold THEN Fail
                   ELSE IF roll = threshold THEN NearFail
                   ELSE IF roll = 1 THEN CriticalFail
                   ELSE IF roll = D20Sides THEN CriticalSuccess
                   ELSE Success
    IN [result |-> outcome, roll |-> roll, rolls |-> r.rolls, printed |-> r.printed]

check(threshold, adv, tape, verbose) ==
    LET r == d20(adv, tape, verbose)
        roll == r.result
        outcome == IF roll = 1 THEN CriticalFail
                   ELSE IF roll = D20Sides THEN CriticalSuccess
                   ELSE IF roll < threshold THEN Fail
                   ELSE IF roll > threshold THEN Success
                   ELSE NearFail
    IN [result |-> outcome, roll |-> roll, rolls |-> r.rolls, printed |-> r.printed]

\* the loop test off by one: a threshold just met is rolled for again
whileConditionInclusive(accumulator, threshold) == accumulator <= threshold

\* the budget test off by one: one die more than the budget allows
budgetSpentLate(maxRolls, rollCount) == Truthy(maxRolls) /\ rollCount > maxRolls

\* line 190: while accumulator < threshold
whileCondition(accumulator, threshold) == accumulator < threshold

\* line 191: if maxRolls and rollCount >= maxRolls
budgetSpent(maxRolls, rollCount) == Truthy(maxRolls) /\ rollCount >= maxRolls

\* the while loop of extendedCheck, from the given accumulator and rollCount
RECURSIVE extendedCheckLoop(_, _, _, _, _, _)
extendedCheckLoop(threshold, maxRolls, accumulator, rollCount, tape, verbose) ==
    IF whileCondition(accumulator, threshold)
    THEN IF budgetSpent(maxRolls, rollCount)
         THEN [result |-> <<Fail, maxRolls>>, rolls |-> <<>>, printed |-> <<>>]
         ELSE LET r == d20(0, tape, verbose)
                  rest == extendedCheckLoop(threshold, maxRolls, accumulator + r.result,
                                            rollCount + 1, Tail(tape), verbose)
              IN [result |-> rest.result, rolls |-> r.rolls \o rest.rolls,
                  printed |-> r.printed \o rest.printed]
    ELSE [result |-> <<Success, rollCount>>, rolls |-> <<>>, printed |-> <<>>]

extendedCheck(threshold, maxRolls, tape, verbose) ==
    extendedCheckLoop(threshold, maxRolls, 0, 0, tape, verbose)

(***************************************************************************)
(* class Attribute                                                         *)
(***************************************************************************)
Attribute(score, label) == [score |-> score, label |-> label]

Strength(score) == Attribute(score, "Str")
Charisma(score) == Attribute(score, "Cha")

\* the modifier taken from the human average 8 instead of 10
modifierFromAverage(self) == self.score - 8

\* the modifier with its sign reversed
modifierNegated(self) == ModifierBase - self.score

modifier(self) == self.score - ModifierBase

modifierLine(self, verbose) ==
    IF verbose THEN << <<self.label, "modifier", modifier(self)>> >> ELSE <<>>

AttributeCheck(self, threshold, adv, tape, verbose, verboseAttr) ==
    LET r == check(threshold - modifier(self), adv, tape, verbose)
    IN [r EXCEPT !.printed = modifierLine(self, verboseAttr) \o @]

AttributeExtendedCheck(self, threshold, maxRolls, tape, verbose, verboseAttr) ==
    LET r == extendedCheck(threshold - modifier(self), maxRolls, tape, verbose)
    IN [r EXCEPT !.printed = modifierLine(self, verboseAttr) \o @]

(***************************************************************************)
(* Input domains.                                                          *)
(***************************************************************************)
Advs == (0 - MaxAdv)..MaxAdv
Counts == (0 - MaxNeg)..MaxCount
CheckThresholds == (0 - MaxNeg)..(D20Sides + 1)
Thresholds == (0 - MaxNeg)..MaxThreshold
Budgets == {None} \cup ((0 - MaxNeg)..MaxRolls)
Scores == {8, 14}
Attributes == {Strength(8), Charisma(14)}

D20Tapes(n) == [1..n -> 1..D20Sides]
D6Tapes(n) == [1..n -> 1..D6Sides]

NoCall == [op |-> "none"]
NoFrame == [threshold |-> 0, maxRolls |-> None, accumulator |-> 0, rollCount |-> 0]

(***************************************************************************)
(* One caller on an entropy-seeded generator: every draw may be any face.  *)
(* A call is made from "idle"; d20, d6 and check return at once, an        *)
(* extended check runs its loop one iteration at a time from "loop"; the   *)
(* caller then picks the result up ("done") and is ready for the next call.*)
(* The trace flags stay as the modules set them when loaded.               *)
(* No path of any of these functions raises, which `raised` records.       *)
(***************************************************************************)
InitMain ==
    /\ pc = "idle"
    /\ last = NoCall
    /\ frame = NoFrame
    /\ attr \in Attributes
    /\ verboseRolls = TRUE
    /\ verboseAttributeChecks = TRUE

D20Call ==
    /\ pc = "idle"
    /\ \E adv \in Advs : \E tape \in D20Tapes(abs(adv) + 1) :
         LET r == d20(adv, tape, verboseRolls)
         IN last' = [op |-> "d20", adv |-> adv, rolls |-> r.rolls, result |-> r.result,
                     printed |-> r.printed, raised |-> NoError]
    /\ pc' = "done"
    /\ UNCHANGED <<frame, attr, verboseRolls, verboseAttributeChecks, seedVars>>

D6Call ==
    /\ pc = "idle"
    /\ \E count \in Counts : \E critical \in BOOLEAN :
       \E tape \in D6Tapes(IF count > 0 THEN count ELSE 0) :
         LET r == d6(count, critical, tape, verboseRolls)
         IN last' = [op |-> "d6", count |-> count, critical |-> critical,
                     rolls |-> r.rolls, result |-> r.result,
                     printed |-> r.printed, raised |-> NoError]
    /\ pc' = "done"
    /\ UNCHANGED <<frame, attr, verboseRolls, verboseAttributeChecks, seedVars>>

CheckCall ==
    /\ pc = "idle"
    /\ \E threshold \in CheckThresholds : \E adv \in Advs :
       \E tape \in D20Tapes(abs(adv) + 1) :
         LET r == check(threshold, adv, tape, verboseRolls)
         IN last' = [op |-> "check", threshold |-> threshold, adv |-> adv,
                     roll |-> r.roll, draws |-> Len(r.rolls), result |-> r.result,
                     raised |-> NoError]
    /\ pc' = "done"
    /\ UNCHANGED <<frame, attr, verboseRolls, verboseAttributeChecks, seedVars>>

AttributeCheckCall ==
    /\ pc = "idle"
    /\ \E threshold \in CheckThresholds : \E adv \in Advs :
       \E tape \in D20Tapes(abs(adv) + 1) :
         LET r == AttributeCheck(attr, threshold, adv, tape, verboseRolls,
                                 verboseAttributeChecks)
         IN last' = [op |-> "Attribute.check", threshold |-> threshold, adv |-> adv,
                     roll |-> r.roll, draws |-> Len(r.rolls), result |-> r.result,
                     raised |-> NoError]
    /\ pc' = "done"
    /\ UNCHANGED <<frame, attr, verboseRolls, verboseAttributeChecks, seedVars>>

\* extendedCheck lines 188-189: the locals before the loop
ExtendedCheckEnter(op, nominal, threshold, maxRolls, printed) ==
    /\ frame' = [threshold |-> threshold, maxRolls |-> maxRolls,
                 accumulator |-> 0, rollCount |-> 0]
    /\ last' = [op |-> op, threshold |-> nominal, maxRolls |-> maxRolls,
                rolls |-> <<>>, result |-> None, printed |-> printed, raised |-> NoError]
    /\ pc' = "loop"

ExtendedCheckCall ==
    /\ pc = "idle"
    /\ \E threshold \in Thresholds \cup {ExampleThreshold} : \E maxRolls \in Budgets :
         /\ threshold = ExampleThreshold => maxRolls = ExampleMaxRolls
         /\ ExtendedCheckEnter("extendedCheck", threshold, threshold, maxRolls, <<>>)
    /\ UNCHANGED <<attr, verboseRolls, verboseAttributeChecks, seedVars>>

AttributeExtendedCheckCall ==
    /\ pc = "idle"
    /\ \E threshold \in Thresholds : \E maxRolls \in Budgets :
         ExtendedCheckEnter("Attribute.extendedCheck", threshold,
                            threshold - modifier(attr), maxRolls,
                            modifierLine(attr, verboseAttributeChecks))
    /\ UNCHANGED <<attr, verboseRolls, verboseAttributeChecks, seedVars>>

\* line 190 true, line 191 true: the budget is spent
ExtendedCheckFail ==
    /\ pc = "loop"
    /\ whileCondition(frame.accumulator, frame.threshold)
    /\ budgetSpent(frame.maxRolls, frame.rollCount)
    /\ last' = [last EXCEPT !.result = <<Fail, frame.maxRolls>>]
    /\ pc' = "done"
    /\ UNCHANGED <<frame, attr, verboseRolls, verboseAttributeChecks, seedVars>>

\* the iteration without line 195: the roll is added but not counted
ExtendedCheckRollUncounted ==
    /\ pc = "loop"
    /\ whileCondition(frame.accumulator, frame.threshold)
    /\ ~budgetSpent(frame.maxRolls, frame.rollCount)
    /\ \E tape \in D20Tapes(1) :
         LET r == d20(0, tape, verboseRolls)
         IN /\ frame' = [frame EXCEPT !.accumulator = @ + r.result]
            /\ last' = [last EXCEPT !.rolls = @ \o r.rolls, !.printed = @ \o r.printed]
    /\ pc' = "loop"
    /\ UNCHANGED <<attr, verboseRolls, verboseAttributeChecks, seedVars>>

\* line 190 true, line 191 false: one more D20
ExtendedCheckRoll ==
    /\ pc = "loop"
    /\ whileCondition(frame.accumulator, frame.threshold)
    /\ ~budgetSpent(frame.maxRolls, frame.rollCount)
    /\ \E tape \in D20Tapes(1) :
         LET r == d20(0, tape, verboseRolls)
         IN /\ frame' = [frame EXCEPT !.accumulator = @ + r.result, !.rollCount = @ + 1]
            /\ last' = [last EXCEPT !.rolls = @ \o r.rolls, !.printed = @ \o r.printed]
    /\ pc' = "loop"
    /\ UNCHANGED <<attr, verboseRolls, verboseAttributeChecks, seedVars>>

\* line 190 false: the loop is left
ExtendedCheckSuccess ==
    /\ pc = "loop"
    /\ ~whileCondition(frame.accumulator, frame.threshold)
    /\ last' = [last EXCEPT !.result = <<Success, frame.rollCount>>]
    /\ pc' = "done"
    /\ UNCHANGED <<frame, attr, verboseRolls, verboseAttributeChecks, seedVars>>

\* the caller takes the returned value; the call's locals are gone
Return ==
    /\ pc = "done"
    /\ pc' = "idle"
    /\ last' = NoCall
    /\ frame' = NoFrame
    /\ UNCHANGED <<attr, verboseRolls, verboseAttributeChecks, seedVars>>

(***************************************************************************)
(* The random source once seeded.  random.seed(s) puts the generator in a  *)
(* state fixed by s, and every randint advances it: the value drawn is a   *)
(* function of the seed and of the number of draws made since.  Gen stands *)
(* for that function (the Mersenne Twister's output, reduced to 0..59).    *)
(***************************************************************************)
Seeds == 0..MaxSeed

Gen(seed, pos) == ((seed + 3) * (pos + 1) * (pos + 1) + 11 * pos + 7 * seed) % 60

\* a reseed that installs the seed but leaves the stream where it was
setSeedKeepsPosition(g, seed) == [g EXCEPT !.seed = seed]

\* setSeed = random.seed
setSeed(g, seed) == [seed |-> seed, pos |-> 0]

\* random.randint(a, b) in generator state g
randint(a, b, g) == a + (Gen(g.seed, g.pos) % (b - a + 1))

\* the next n values randint(1, sides) hands out from generator state g
Draws(g, sides, n) == [i \in 1..n |-> randint(1, sides, [g EXCEPT !.pos = @ + i - 1])]

NewRun(seed) ==
    [gen |-> [seed |-> seed, pos |-> 0], verboseRolls |-> TRUE,
     verboseAttributeChecks |-> TRUE, ret |-> None, lines |-> 0]

\* a session after a call that returned r: the generator has moved past r's draws
Served(run, r) ==
    [run EXCEPT !.gen.pos = @ + Len(r.rolls), !.ret = r.result, !.lines = Len(r.printed)]

\* the most draws a call can make: an extended check from a threshold (each roll
\* adds at least 1), d6 from a count
Reach(threshold) == IF threshold > 0 THEN threshold ELSE 0

RunD20(run, adv) ==
    Served(run, d20(adv, Draws(run.gen, D20Sides, abs(adv) + 1), run.verboseRolls))

RunD6(run, count, critical) ==
    Served(run, d6(count, critical, Draws(run.gen, D6Sides, Reach(count)),
                   run.verboseRolls))

RunCheck(run, threshold, adv) ==
    Served(run, check(threshold, adv, Draws(run.gen, D20Sides, abs(adv) + 1),
                      run.verboseRolls))

RunExtendedCheck(run, threshold, maxRolls) ==
    Served(run, extendedCheck(threshold, maxRolls,
                              Draws(run.gen, D20Sides, Reach(threshold)),
                              run.verboseRolls))

RunAttributeCheck(run, self, threshold, adv) ==
    Served(run, AttributeCheck(self, threshold, adv,
                               Draws(run.gen, D20Sides, abs(adv) + 1),
                               run.verboseRolls, run.verboseAttributeChecks))

RunAttributeExtendedCheck(run, self, threshold, maxRolls) ==
    Served(run, AttributeExtendedCheck(self, threshold, maxRolls,
                                       Draws(run.gen, D20Sides,
                                             Reach(threshold - modifier(self))),
                                       run.verboseRolls, run.verboseAttributeChecks))

InitRuns(seeds) ==
    /\ runs \in {<<NewRun(a), NewRun(b)>> : a \in seeds, b \in seeds}
    /\ phase = "warmup"
    /\ ncalls = 0
    /\ diverged = FALSE

\* the arguments the replayed checks take
ReplayThresholds == (MaxThreshold - 1)..MaxThreshold
ReplayBudgets == {None, MaxRolls - 1}

\* before the reseed each session makes calls of its own, whose results it drops
Dropped(run) == [run EXCEPT !.ret = None, !.lines = 0]

WarmupD20 ==
    /\ phase = "warmup"
    /\ \E k \in 1..2 : \E adv \in Advs :
         /\ runs[k].gen.pos < MaxWarmup
         /\ runs' = [runs EXCEPT ![k] = Dropped(RunD20(@, adv))]
    /\ UNCHANGED <<mainVars, phase, ncalls, diverged>>

WarmupD6 ==
    /\ phase = "warmup"
    /\ \E k \in 1..2 : \E count \in Counts : \E critical \in BOOLEAN :
         /\ runs[k].gen.pos < MaxWarmup
         /\ runs' = [runs EXCEPT ![k] = Dropped(RunD6(@, count, critical))]
    /\ UNCHANGED <<mainVars, phase, ncalls, diverged>>

\* each session sets its trace flags as it likes, at any time
RunSetVerboseRolls ==
    /\ \E k \in 1..2 : runs' = [runs EXCEPT ![k].verboseRolls = ~@]
    /\ UNCHANGED <<mainVars, phase, ncalls, diverged>>

RunSetVerboseAttributeChecks ==
    /\ \E k \in 1..2 : runs' = [runs EXCEPT ![k].verboseAttributeChecks = ~@]
    /\ UNCHANGED <<mainVars, phase, ncalls, diverged>>

\* both sessions call setSeed with the same seed
Reseed ==
    /\ \E seed \in Seeds :
         runs' = [k \in 1..2 |-> Dropped([runs[k] EXCEPT !.gen = setSeed(@, seed)])]
    /\ phase' = "replay"
    /\ ncalls' = 0
    /\ diverged' = (diverged \/ runs[1].gen # runs[2].gen)
    /\ UNCHANGED mainVars

\* after it, both sessions issue the same call with the same arguments
ReplayD20 ==
    /\ phase = "replay" /\ ncalls < MaxCalls
    /\ \E adv \in Advs : runs' = [k \in 1..2 |-> RunD20(runs[k], adv)]
    /\ ncalls' = ncalls + 1
    /\ UNCHANGED <<mainVars, phase, diverged>>

ReplayD6 ==
    /\ phase = "replay" /\ ncalls < MaxCalls
    /\ \E count \in 1..MaxCount : \E critical \in BOOLEAN :
         runs' = [k \in 1..2 |-> RunD6(runs[k], count, critical)]
    /\ ncalls' = ncalls + 1
    /\ UNCHANGED <<mainVars, phase, diverged>>

ReplayCheck ==
    /\ phase = "replay" /\ ncalls < MaxCalls
    /\ \E threshold \in ReplayThresholds : \E adv \in Advs :
         runs' = [k \in 1..2 |-> RunCheck(runs[k], threshold, adv)]
    /\ ncalls' = ncalls + 1
    /\ UNCHANGED <<mainVars, phase, diverged>>

ReplayExtendedCheck ==
    /\ phase = "replay" /\ ncalls < MaxCalls
    /\ \E threshold \in ReplayThresholds : \E maxRolls \in ReplayBudgets :
         runs' = [k \in 1..2 |-> RunExtendedCheck(runs[k], threshold, maxRolls)]
    /\ ncalls' = ncalls + 1
    /\ UNCHANGED <<mainVars, phase, diverged>>

ReplayAttributeCheck ==
    /\ phase = "replay" /\ ncalls < MaxCalls
    /\ \E threshold \in ReplayThresholds : \E adv \in Advs :
         runs' = [k \in 1..2 |-> RunAttributeCheck(runs[k], attr, threshold, adv)]
    /\ ncalls' = ncalls + 1
    /\ UNCHANGED <<mainVars, phase, diverged>>

ReplayAttributeExtendedCheck ==
    /\ phase = "replay" /\ ncalls < MaxCalls
    /\ \E threshold \in ReplayThresholds : \E maxRolls \in ReplayBudgets :
         runs' = [k \in 1..2 |->
                     RunAttributeExtendedCheck(runs[k], attr, threshold, maxRolls)]
    /\ ncalls' = ncalls + 1
    /\ UNCHANGED <<mainVars, phase, diverged>>

(***************************************************************************)
(* Specifications.                                                         *)
(***************************************************************************)
Init == InitMain /\ InitRuns({0})

Next ==
    \/ D20Call
    \/ D6Call
    \/ CheckCall
    \/ AttributeCheckCall
    \/ ExtendedCheckCall
    \/ AttributeExtendedCheckCall
    \/ ExtendedCheckFail
    \/ ExtendedCheckRoll
    \/ ExtendedCheckSuccess
    \/ Return

Spec == Init /\ [][Next]_vars

\* the plain extended check alone; an iteration that can run does run
NextExt ==
    \/ ExtendedCheckCall
    \/ ExtendedCheckFail
    \/ ExtendedCheckRoll
    \/ ExtendedCheckSuccess
    \/ Return

SpecExt ==
    /\ Init
    /\ [][NextExt]_vars
    /\ WF_vars(ExtendedCheckFail)
    /\ WF_vars(ExtendedCheckRoll)
    /\ WF_vars(ExtendedCheckSuccess)

\* two sessions of the seeded generator side by side
InitSeeded == InitMain /\ attr = Charisma(14) /\ InitRuns(Seeds)

NextSeeded ==
    \/ WarmupD20
    \/ WarmupD6
    \/ RunSetVerboseRolls
    \/ RunSetVerboseAttributeChecks
    \/ Reseed
    \/ ReplayD20
    \/ ReplayD6
    \/ ReplayCheck
    \/ ReplayExtendedCheck
    \/ ReplayAttributeCheck
    \/ ReplayAttributeExtendedCheck

SpecSeeded == InitSeeded /\ [][NextSeeded]_vars

(***************************************************************************)
(* Properties.                                                             *)
(***************************************************************************)
Returned(op) == pc = "done" /\ last.op = op

InRange(rolls, sides) == \A i \in 1..Len(rolls) : rolls[i] \in 1..sides

IsMaximum(v, rolls) ==
    /\ \E i \in 1..Len(rolls) : rolls[i] = v
    /\ \A i \in 1..Len(rolls) : rolls[i] <= v

IsMinimum(v, rolls) ==
    /\ \E i \in 1..Len(rolls) : rolls[i] = v
    /\ \A i \in 1..Len(rolls) : rolls[i] >= v

\* rolls without its last element
Front(rolls) == SubSeq(rolls, 1, Len(rolls) - 1)

\* rolls followed by two more dice showing the top face, enough for a reference
\* run that reads further than the observed run did to reach its threshold
Padded(rolls) == rolls \o <<D20Sides, D20Sides>>

\* C1: with a positive budget maxRolls, extendedCheck returns a count of at most
\* maxRolls and never draws more than maxRolls dice; it returns Fail exactly when
\* the draws of the budget sum to less than the threshold, and then the count is
\* maxRolls; otherwise it returns Success with the number of dice drawn.
C1_BudgetBoundsExtendedCheck ==
    (Returned("extendedCheck") /\ last.maxRolls # None /\ last.maxRolls > 0) =>
        /\ last.result[1] \in {Fail, Success}
        /\ last.result[2] <= last.maxRolls
        /\ Len(last.rolls) <= last.maxRolls
        /\ InRange(last.rolls, D20Sides)
        /\ (last.result[1] = Fail) <=> (sum(last.rolls) < last.threshold)
        /\ last.result[1] = Fail =>
              (last.result[2] = last.maxRolls /\ Len(last.rolls) = last.maxRolls)
        /\ last.result[1] = Success => last.result[2] = Len(last.rolls)

\* the documented run: extendedCheck(30, 2) drawing 10 and 15 returns (Fail, 2)
C1_Witness ==
    /\ Returned("extendedCheck")
    /\ last.threshold = ExampleThreshold /\ last.maxRolls = ExampleMaxRolls
    /\ last.rolls = <<10, 15>>
    /\ last.result = <<Fail, 2>>

C2_Unbudgeted ==
    /\ last.op = "extendedCheck"
    /\ last.threshold > 0
    /\ ~Truthy(last.maxRolls)

C2_Safety ==
    C2_Unbudgeted =>
        /\ pc = "loop" => (frame.rollCount <= last.threshold
                           /\ Len(last.rolls) = frame.rollCount)
        /\ pc = "done" =>
              /\ last.result[1] = Success
              /\ last.result[2] = Len(last.rolls)
              /\ last.result[2] <= last.threshold
              /\ InRange(last.rolls, D20Sides)
              /\ sum(last.rolls) >= last.threshold
              /\ sum(Front(last.rolls)) < last.threshold

\* C2: with a positive threshold and no budget (maxRolls None or 0) extendedCheck
\* makes at most threshold rolls, always returns, and returns (Success, rollCount)
\* where the rollCount draws sum to at least the threshold and the first
\* rollCount - 1 of them to less.
C2_UnbudgetedTerminatesWithSuccess ==
    /\ []C2_Safety
    /\ (pc = "loop" /\ C2_Unbudgeted) ~> (pc = "done")

\* an unbudgeted check that took exactly threshold rolls, every die a 1
C2_Witness ==
    /\ Returned("extendedCheck") /\ C2_Unbudgeted
    /\ last.threshold = MaxThreshold
    /\ last.maxRolls = 0
    /\ last.result = <<Success, MaxThreshold>>

\* C3: check returns CriticalFail iff the reduced roll is 1, CriticalSuccess iff
\* it is 20, whatever the threshold; for any other roll it returns Fail, NearFail
\* or Success as the roll is below, equal to or above the threshold.
C3_CheckClassifies ==
    Returned("check") =>
        /\ last.roll \in 1..D20Sides
        /\ (last.result = CriticalFail) <=> (last.roll = 1)
        /\ (last.result = CriticalSuccess) <=> (last.roll = D20Sides)
        /\ last.roll \notin {1, D20Sides} =>
              /\ (last.result = Fail) <=> (last.roll < last.threshold)
              /\ (last.result = NearFail) <=> (last.roll = last.threshold)
              /\ (last.result = Success) <=> (last.roll > last.threshold)

\* a natural 20 that loses against the threshold is still a critical success
C3_Witness ==
    /\ Returned("check")
    /\ last.roll = D20Sides /\ last.threshold = D20Sides + 1
    /\ last.result = CriticalSuccess

\* C4: d20(adv) draws |adv| + 1 values, each in 1..20, and returns their maximum
\* when adv > 0, their minimum when adv < 0 and the single draw when adv = 0.
C4_D20DrawsAndReduces ==
    Returned("d20") =>
        /\ Len(last.rolls) = abs(last.adv) + 1
        /\ InRange(last.rolls, D20Sides)
        /\ last.adv > 0 => IsMaximum(last.result, last.rolls)
        /\ last.adv < 0 => IsMinimum(last.result, last.rolls)
        /\ last.adv = 0 => last.result = last.rolls[1]

\* a roll with advantage whose best die is not the last one drawn
C4_Witness ==
    /\ Returned("d20")
    /\ last.adv > 0
    /\ last.rolls[1] > last.rolls[2]
    /\ last.result = last.rolls[1]

\* C5 as stated: d6 with count <= 0 fails with InvalidArgument
C5_D6RejectsNonPositiveCount ==
    (Returned("d6") /\ last.count <= 0) => last.raised = "InvalidArgument"

\* C5, amended: d6 with count <= 0 raises nothing; it draws nothing and returns
\* 0 when critical is false and 6 * count when critical is true.
C5_D6NonPositiveCountReturns ==
    (Returned("d6") /\ last.count <= 0) =>
        /\ last.raised = NoError
        /\ last.rolls = <<>>
        /\ last.result = IF last.critical THEN D6Sides * last.count ELSE 0

\* a critical roll of a negative number of dice returns negative damage
C5_Witness ==
    /\ Returned("d6")
    /\ last.count < 0 /\ last.critical
    /\ last.result < 0

\* the threshold the loop of the returned extended check ran against
EffectiveThreshold ==
    IF last.op = "Attribute.extendedCheck"
    THEN last.threshold - (attr.score - ModifierBase)
    ELSE last.threshold

ReturnedExtended ==
    pc = "done" /\ last.op \in {"extendedCheck", "Attribute.extendedCheck"}

\* C6 as stated: an extended check with a non-positive threshold is rejected
\* with InvalidArgument and never resolved to an outcome
C6_NonPositiveThresholdRejected ==
    (ReturnedExtended /\ EffectiveThreshold <= 0) =>
        (last.raised = "InvalidArgument" /\ last.result # <<Success, 0>>)

\* C6, amended: an extended check with a non-positive threshold (passed to
\* extendedCheck or produced by Attribute.extendedCheck) raises nothing; it
\* draws no die and returns (Success, 0) whatever maxRolls is.
C6_NonPositiveThresholdSucceedsAtOnce ==
    (ReturnedExtended /\ EffectiveThreshold <= 0) =>
        /\ last.raised = NoError
        /\ last.rolls = <<>>
        /\ last.result = <<Success, 0>>

\* a positive nominal threshold that the attribute's modifier brings to zero or
\* below, with a budget set
C6_Witness ==
    /\ Returned("Attribute.extendedCheck")
    /\ last.threshold > 0 /\ EffectiveThreshold <= 0
    /\ last.maxRolls = 1
    /\ last.result = <<Success, 0>>

\* C7: d6 with a positive count draws count values in 1..6; it returns their sum,
\* in [count, 6*count], when not critical, and their sum plus 6*count, in
\* [7*count, 12*count], when critical.
C7_D6SumsAndScales ==
    (Returned("d6") /\ last.count > 0) =>
        /\ Len(last.rolls) = last.count
        /\ InRange(last.rolls, D6Sides)
        /\ ~last.critical =>
              /\ last.result = sum(last.rolls)
              /\ last.result \in last.count..(6 * last.count)
        /\ last.critical =>
              /\ last.result = sum(last.rolls) + 6 * last.count
              /\ last.result \in (7 * last.count)..(12 * last.count)

\* a critical roll of several dice at the top of its range
C7_Witness ==
    /\ Returned("d6")
    /\ last.count = MaxCount /\ last.critical
    /\ last.result = 12 * last.count

C8_State ==
    /\ Returned("Attribute.check") =>
          /\ last.result =
                check(last.threshold - (attr.score - 10), 0, <<last.roll>>, FALSE).result
          /\ last.draws = abs(last.adv) + 1
    /\ Returned("Attribute.extendedCheck") =>
          LET threshold == last.threshold - (attr.score - 10)
              plain == extendedCheck(threshold, last.maxRolls,
                                     Padded(last.rolls), FALSE)
          IN /\ last.result = plain.result
             /\ last.rolls = plain.rolls

\* C8: Attribute.check(threshold, adv) returns, on the same reduced roll, what
\* check(threshold - (score - 10), adv) returns and draws as many dice;
\* Attribute.extendedCheck(threshold, maxRolls) returns what
\* extendedCheck(threshold - (score - 10), maxRolls) returns on the same draws and
\* consumes the same draws; no call changes the attribute's score or label.
C8_AttributeDelegates ==
    /\ []C8_State
    /\ [][attr' = attr]_vars

\* the documented case, a score of 14 checking against 15: a roll of 12 beats
\* the shifted threshold 11, not the nominal one
C8_Witness ==
    /\ Returned("Attribute.check")
    /\ attr.score = 14 /\ last.threshold = 15 /\ last.adv # 0
    /\ last.roll = 12
    /\ last.result = Success

\* C9: once both sessions have reseeded with the same seed, every call they
\* both issue leaves their generators in the same state and returns the same
\* value in both, whatever each session did before the reseed and however each
\* has its trace flags set.
C9_ReseedReproduces ==
    phase = "replay" =>
        /\ runs[1].gen = runs[2].gen
        /\ runs[1].ret = runs[2].ret

\* sessions that differed before the reseed, trace differently, and have
\* replayed calls that drew dice
C9_Witness ==
    /\ phase = "replay" /\ ncalls = MaxCalls
    /\ diverged
    /\ runs[1].verboseRolls # runs[2].verboseRolls
    /\ runs[1].lines # runs[2].lines
    /\ runs[1].gen.pos > 1
    /\ runs[1].ret # None

\* the scores an attribute is compared against
ScoreRange == 1..D20Sides

\* C10: on the same reduced roll and nominal threshold, Attribute.check with a
\* higher score never returns an outcome of lower rank; on the same draws and
\* budget, Attribute.extendedCheck with a higher score never turns a Success into
\* a Fail and never takes more rolls to succeed.
C10_ScoreMonotone ==
    /\ Returned("Attribute.check") =>
          \A score \in ScoreRange :
              LET other == AttributeCheck(Attribute(score, attr.label), last.threshold,
                                          0, <<last.roll>>, FALSE, FALSE).result
              IN /\ score >= attr.score => other >= last.result
                 /\ score <= attr.score => other <= last.result
    /\ (Returned("Attribute.extendedCheck") /\ last.result[1] = Success) =>
          \A score \in ScoreRange :
              score >= attr.score =>
                  LET other == AttributeExtendedCheck(Attribute(score, attr.label),
                                   last.threshold, last.maxRolls,
                                   Padded(last.rolls),
                                   FALSE, FALSE).result
                  IN other[1] = Success /\ other[2] <= last.result[2]

\* an extended check that succeeded after several rolls and that a higher score
\* would have finished in fewer
C10_Witness ==
    /\ Returned("Attribute.extendedCheck")
    /\ last.result[1] = Success /\ last.result[2] >= 2
    /\ \E score \in ScoreRange :
          /\ score > attr.score
          /\ AttributeExtendedCheck(Attribute(score, attr.label),
                 last.threshold, last.maxRolls, last.rolls, FALSE, FALSE).result[2]
               < last.result[2]

====
